---- MODULE Spec2Model ----
(***************************************************************************)
(* Model of src/public/fetch_service.py: the polygon geometry normalizer   *)
(* clean_polygon_geometry (with its helpers is_valid_coord and close_ring) *)
(* and the feature collection loop generate_geojson / fetch_city_boundary. *)
(*                                                                         *)
(* Python values are modelled as follows.                                  *)
(*   number / non-number  a record [isnum, v]                              *)
(*   coordinate, ring, polygon, list   a sequence                          *)
(*   dict                 a record whose DOMAIN is the dict's key set      *)
(*   None                 PyNone                                           *)
(*   outcome of a call    [kind |-> "None"], [kind |-> "raise", exc],      *)
(*                        [kind |-> "geometry", value]                     *)
(***************************************************************************)
EXTENDS Integers, Sequences, FiniteSets, TLC

VARIABLES pc, raw, geom, ret, ret2, cities, idx, features, fetched

vars == <<pc, raw, geom, ret, ret2, cities, idx, features, fetched>>

(* ---------------------------- bounds ----------------------------------- *)

\* A raw geometry has at most MaxSize nodes (polygons + rings + coordinates).
MaxSize == 7

\* generate_geojson is run on city lists of at most MaxCities names.
MaxCities == 3

(* ---------------------------- values ----------------------------------- *)

Num(n) == [isnum |-> TRUE, v |-> n]

NotNum == [isnum |-> FALSE, v |-> 0]

PyNone == [None |-> TRUE]

EmptyDict == [k \in {} |-> TRUE]

NoneResult == [kind |-> "None"]

Raise(e) == [kind |-> "raise", exc |-> e]

Return(g) == [kind |-> "geometry", value |-> g]

\* The coordinate pairs raw rings are built from: the two extreme valid
\* corners, a longitude and a latitude just out of range, a one-element
\* coordinate and a coordinate whose longitude is not a number.
cA == <<Num(-180), Num(-90)>>

cB == <<Num(180), Num(90)>>

cX == <<Num(181), Num(0)>>

cY == <<Num(0), Num(-91)>>

cS == <<Num(0)>>

cN == <<NotNum, Num(0)>>

Coords == {cA, cB, cX, cY, cS, cN}

\* The shape of a ring list is the sequence of its rings' lengths, that of a
\* polygon list the sequence of its polygons' shapes. RingShapes[n]: the ring
\* lists of at most n nodes (a ring counts 1, each of its coordinates 1).
RingShapes[n \in 0..MaxSize] ==
    {<<>>} \cup
    UNION { { <<k>> \o rest : rest \in RingShapes[n - 1 - k] } : k \in 0..(n - 1) }

\* PolyShapes[n]: the polygon lists of at most n nodes (a polygon counts 1
\* plus its ring list).
PolyShapes[n \in 0..MaxSize] ==
    {<<>>} \cup
    UNION { { <<p>> \o rest : p \in RingShapes[k], rest \in PolyShapes[n - 1 - k] }
            : k \in 0..(n - 1) }

RECURSIVE Sum(_)
Sum(s) == IF s = <<>> THEN 0 ELSE s[1] + Sum(Tail(s))

\* The ring list of shape s whose coordinates are f[off + 1], f[off + 2], ...
BuildRings(s, f, off) ==
    [j \in 1..Len(s) |-> [m \in 1..s[j] |-> f[off + Sum(SubSeq(s, 1, j - 1)) + m]]]

PolySizes(ps) == [i \in 1..Len(ps) |-> Sum(ps[i])]

BuildPolys(ps, f) ==
    [i \in 1..Len(ps) |-> BuildRings(ps[i], f, Sum(SubSeq(PolySizes(ps), 1, i - 1)))]

\* Inputs that are not a well-formed geometry: no type tag, no coordinates
\* field, an empty dict, None.
Malformed ==
    { [coordinates |-> <<>>], [coordinates |-> << <<cA, cB>> >>],
      [type |-> "Polygon"], [type |-> "MultiPolygon"], EmptyDict, PyNone }

(* ------------------------ clean_polygon_geometry ------------------------ *)

\* A faulty is_valid_coord that forgets the lower latitude bound.
is_valid_coord_no_lat_min(coord) ==
    /\ Len(coord) >= 2
    /\ coord[1].isnum
    /\ coord[2].isnum
    /\ -180 <= coord[1].v /\ coord[1].v <= 180
    /\ coord[2].v <= 90

is_valid_coord(coord) ==
    /\ Len(coord) >= 2
    /\ coord[1].isnum
    /\ coord[2].isnum
    /\ -180 <= coord[1].v /\ coord[1].v <= 180
    /\ -90 <= coord[2].v /\ coord[2].v <= 90

\* A faulty close_ring that appends the first coordinate without comparing it
\* with the last.
close_ring_always_append(ring) ==
    IF ring = <<>>
    THEN [none |-> FALSE, val |-> ring, arg |-> ring]
    ELSE LET filtered == SelectSeq(ring, is_valid_coord)
         IN  IF filtered = <<>>
             THEN [none |-> TRUE, val |-> <<>>, arg |-> ring]
             ELSE [none |-> FALSE, val |-> Append(filtered, filtered[1]), arg |-> ring]

\* A faulty close_ring that closes the ring before it filters it.
close_ring_close_first(ring) ==
    IF ring = <<>>
    THEN [none |-> FALSE, val |-> ring, arg |-> ring]
    ELSE LET closed == IF ring[1] # ring[Len(ring)] THEN Append(ring, ring[1]) ELSE ring
             filtered == SelectSeq(closed, is_valid_coord)
         IN  IF filtered = <<>>
             THEN [none |-> TRUE, val |-> <<>>, arg |-> ring]
             ELSE [none |-> FALSE, val |-> filtered, arg |-> ring]

\* A faulty close_ring that filters and closes the caller's list in place.
close_ring_in_place(ring) ==
    IF ring = <<>>
    THEN [none |-> FALSE, val |-> ring, arg |-> ring]
    ELSE LET filtered == SelectSeq(ring, is_valid_coord)
         IN  IF filtered = <<>>
             THEN [none |-> TRUE, val |-> <<>>, arg |-> filtered]
             ELSE IF filtered[1] # filtered[Len(filtered)]
                  THEN [none |-> FALSE, val |-> Append(filtered, filtered[1]),
                        arg |-> Append(filtered, filtered[1])]
                  ELSE [none |-> FALSE, val |-> filtered, arg |-> filtered]

\* A faulty close_ring that also closes a ring of one coordinate.
close_ring_dup_single(ring) ==
    IF ring = <<>>
    THEN [none |-> FALSE, val |-> ring, arg |-> ring]
    ELSE LET filtered == SelectSeq(ring, is_valid_coord)
         IN  IF filtered = <<>>
             THEN [none |-> TRUE, val |-> <<>>, arg |-> ring]
             ELSE IF Len(filtered) < 2 \/ filtered[1] # filtered[Len(filtered)]
                  THEN [none |-> FALSE, val |-> Append(filtered, filtered[1]), arg |-> ring]
                  ELSE [none |-> FALSE, val |-> filtered, arg |-> ring]

\* Python truth value of what close_ring returned.
Truthy(r) == ~r.none /\ r.val # <<>>

\* close_ring(ring): val is the returned list (none: the return value is
\* None), arg is the caller's list object as the call leaves it.
close_ring(ring) ==
    IF ring = <<>>
    THEN [none |-> FALSE, val |-> ring, arg |-> ring]
    ELSE LET filtered == SelectSeq(ring, is_valid_coord)
         IN  IF filtered = <<>>
             THEN [none |-> TRUE, val |-> <<>>, arg |-> ring]
             ELSE IF filtered[1] # filtered[Len(filtered)]
                  THEN [none |-> FALSE, val |-> Append(filtered, filtered[1]), arg |-> ring]
                  ELSE [none |-> FALSE, val |-> filtered, arg |-> ring]


\* A faulty loop body that discards the polygon when one of its holes has no
\* valid coordinate.
LoopBody_hole_discards(polygon) ==
    IF polygon = <<>>
    THEN [raised |-> TRUE, cleaned |-> <<>>, arg |-> polygon]
    ELSE LET outer_ring == close_ring(polygon[1])
             holes == [j \in 1..(Len(polygon) - 1) |-> close_ring(polygon[j + 1])]
             cleaned_polygon == <<outer_ring.val>> \o [j \in 1..Len(holes) |-> holes[j].val]
         IN  IF Truthy(outer_ring) /\ \A j \in 1..Len(holes) : Truthy(holes[j])
             THEN [raised |-> FALSE, cleaned |-> <<cleaned_polygon>>, arg |-> polygon]
             ELSE [raised |-> FALSE, cleaned |-> <<>>, arg |-> polygon]

\* One iteration of the loop over the polygons: cleaned is what the iteration
\* appends to cleaned_coords (nothing, or one cleaned polygon), raised tells
\* that polygon[0] failed on an empty ring list, arg is the caller's polygon
\* as the iteration leaves it.
LoopBody(polygon) ==
    IF polygon = <<>>
    THEN [raised |-> TRUE, cleaned |-> <<>>, arg |-> polygon]
    ELSE LET outer_ring == close_ring(polygon[1])
             holes == [j \in 1..(Len(polygon) - 1) |-> close_ring(polygon[j + 1])]
             cleaned_holes == SelectSeq(holes, Truthy)
             cleaned_polygon ==
                 <<outer_ring.val>> \o [j \in 1..Len(cleaned_holes) |-> cleaned_holes[j].val]
         IN  IF Truthy(outer_ring)
             THEN [raised |-> FALSE,
                   cleaned |-> IF cleaned_polygon # <<>> THEN <<cleaned_polygon>> ELSE <<>>,
                   arg |-> [j \in 1..Len(polygon) |->
                               IF j = 1 THEN outer_ring.arg ELSE holes[j - 1].arg]]
             ELSE [raised |-> FALSE, cleaned |-> <<>>,
                   arg |-> [polygon EXCEPT ![1] = outer_ring.arg]]

\* The loop over the polygons from the i-th on, with cleaned_coords as built
\* so far; it stops at the first iteration that raises.
RECURSIVE Loop(_, _, _)
Loop(coordinates, cleaned_coords, i) ==
    IF i > Len(coordinates)
    THEN [raised |-> FALSE, cleaned_coords |-> cleaned_coords, arg |-> coordinates]
    ELSE LET b == LoopBody(coordinates[i])
         IN  IF b.raised
             THEN [raised |-> TRUE, cleaned_coords |-> cleaned_coords, arg |-> coordinates]
             ELSE Loop([coordinates EXCEPT ![i] = b.arg], cleaned_coords \o b.cleaned, i + 1)

\* A faulty return statement whose type tag is off by one.
ReturnValue_tag_off_by_one(cleaned_coords) ==
    IF Len(cleaned_coords) > 1
    THEN Return([type |-> "MultiPolygon", coordinates |-> cleaned_coords])
    ELSE IF Len(cleaned_coords) = 0
         THEN Raise("IndexError")
         ELSE Return([type |-> "MultiPolygon", coordinates |-> cleaned_coords[1]])

\* The return statement: cleaned_coords[0] raises IndexError on an empty list.
ReturnValue(cleaned_coords) ==
    IF Len(cleaned_coords) > 1
    THEN Return([type |-> "MultiPolygon", coordinates |-> cleaned_coords])
    ELSE IF Len(cleaned_coords) = 0
         THEN Raise("IndexError")
         ELSE Return([type |-> "Polygon", coordinates |-> cleaned_coords[1]])

\* clean_polygon_geometry(g): ret is the outcome of the call, arg is the
\* caller's geometry object as the call leaves it.
clean_polygon_geometry(geojson_geometry) ==
    IF \/ geojson_geometry = PyNone
       \/ DOMAIN geojson_geometry = {}
       \/ "coordinates" \notin DOMAIN geojson_geometry
    THEN [ret |-> NoneResult, arg |-> geojson_geometry]
    ELSE IF "type" \notin DOMAIN geojson_geometry
    THEN [ret |-> Raise("KeyError"), arg |-> geojson_geometry]
    ELSE LET isPolygon == geojson_geometry.type = "Polygon"
             coordinates == IF isPolygon
                            THEN <<geojson_geometry.coordinates>>
                            ELSE geojson_geometry.coordinates
             l == Loop(coordinates, <<>>, 1)
             cleaned_coords == l.cleaned_coords
             after == [geojson_geometry EXCEPT
                          !.coordinates = IF isPolygon THEN l.arg[1] ELSE l.arg]
         IN  IF l.raised
             THEN [ret |-> Raise("IndexError"), arg |-> after]
             ELSE [ret |-> ReturnValue(cleaned_coords), arg |-> after]

(* ------------------------- the normalizer's run ------------------------- *)

Pending == [kind |-> "pending"]

Init ==
    /\ pc = "start"
    /\ \/ \E s \in RingShapes[MaxSize - 1] : \E f \in [1..Sum(s) -> Coords] :
              raw = [type |-> "Polygon", coordinates |-> BuildRings(s, f, 0)]
       \/ \E ps \in PolyShapes[MaxSize] : \E f \in [1..Sum(PolySizes(ps)) -> Coords] :
              raw = [type |-> "MultiPolygon", coordinates |-> BuildPolys(ps, f)]
       \/ raw \in Malformed
    /\ geom = raw
    /\ ret = Pending
    /\ ret2 = Pending
    /\ cities = <<>>
    /\ idx = 0
    /\ features = <<>>
    /\ fetched = <<>>

\* A caller passes geom to clean_polygon_geometry.
Call ==
    /\ pc = "start"
    /\ LET c == clean_polygon_geometry(geom)
       IN  /\ ret' = c.ret
           /\ geom' = c.arg
    /\ pc' = "returned"
    /\ UNCHANGED <<raw, ret2, cities, idx, features, fetched>>

\* The caller passes the geometry it got back to clean_polygon_geometry again.
CallAgain ==
    /\ pc = "returned"
    /\ ret.kind = "geometry"
    /\ ret2' = clean_polygon_geometry(ret.value).ret
    /\ pc' = "again"
    /\ UNCHANGED <<raw, geom, ret, cities, idx, features, fetched>>

Next == Call \/ CallAgain

Spec == Init /\ [][Next]_vars

(* ----------------- fetch_city_boundary, generate_geojson ---------------- *)

CityNames == {"Davis", "Chico"}

\* City lists of at most n names; a name may occur more than once.
CityLists == UNION { [1..n -> CityNames] : n \in 0..MaxCities }

\* What geolocator.geocode can do: raise, return None, or return a location
\* whose raw dict has no 'geojson' entry, an empty one, or a geometry.
GeocodeOutcomes ==
    { [kind |-> "raise"],
      [kind |-> "return", location |-> PyNone],
      [kind |-> "return", location |-> [raw |-> EmptyDict]],
      [kind |-> "return", location |-> [raw |-> [geojson |-> EmptyDict]]] }
    \cup
    { [kind |-> "return", location |-> [raw |-> [geojson |-> g]]] :
        g \in { [type |-> "Polygon", coordinates |-> << <<cA, cB, cA>> >>],
                [type |-> "Polygon", coordinates |-> << <<cB, cX, cA>> >>],
                [type |-> "Polygon", coordinates |-> << <<cX, cY>> >>],
                [type |-> "MultiPolygon",
                 coordinates |-> << << <<cA>> >>, << <<cB>> >> >>],
                [type |-> "Polygon"],
                [coordinates |-> << <<cA, cB>> >>] } }

\* Python truth value of a dict or None.
DictTruthy(d) == d # PyNone /\ DOMAIN d # {}

\* fetch_city_boundary, given what geocode does for the city: the geometry
\* returned, or NoneResult; every exception is caught and gives None.
fetch_city_boundary(outcome) ==
    IF outcome.kind = "raise"
    THEN NoneResult
    ELSE LET location == outcome.location
         IN  IF /\ DictTruthy(location)
                /\ "geojson" \in DOMAIN location.raw
                /\ DictTruthy(location.raw.geojson)
             THEN LET cleaned_geometry == clean_polygon_geometry(location.raw.geojson).ret
                  IN  IF cleaned_geometry.kind = "raise"
                      THEN NoneResult
                      ELSE cleaned_geometry
             ELSE NoneResult

\* A faulty append that skips a city whose name already has a feature.
AppendFeature_dedup(feats, city, boundary) ==
    IF /\ boundary.kind = "geometry"
       /\ DictTruthy(boundary.value)
       /\ \A k \in 1..Len(feats) : feats[k].properties.name # city
    THEN Append(feats, [type |-> "Feature",
                        geometry |-> boundary.value,
                        properties |-> [name |-> city]])
    ELSE feats

\* The loop body's conditional append ("if boundary: features.append(...)").
AppendFeature(feats, city, boundary) ==
    IF boundary.kind = "geometry" /\ DictTruthy(boundary.value)
    THEN Append(feats, [type |-> "Feature",
                        geometry |-> boundary.value,
                        properties |-> [name |-> city]])
    ELSE feats

InitGen ==
    /\ pc = "loop"
    /\ cities \in CityLists
    /\ idx = 1
    /\ features = <<>>
    /\ fetched = <<>>
    /\ raw = PyNone
    /\ geom = PyNone
    /\ ret = Pending
    /\ ret2 = Pending

\* One iteration of generate_geojson's loop, for the city at idx; fetched
\* records what fetch_city_boundary returned for it.
Iterate ==
    /\ pc = "loop"
    /\ idx <= Len(cities)
    /\ \E outcome \in GeocodeOutcomes :
          LET boundary == fetch_city_boundary(outcome)
          IN  /\ features' = AppendFeature(features, cities[idx], boundary)
              /\ fetched' = Append(fetched, boundary)
    /\ idx' = idx + 1
    /\ UNCHANGED <<pc, raw, geom, ret, ret2, cities>>

\* The loop is over: generate_geojson returns the FeatureCollection.
ReturnCollection ==
    /\ pc = "loop"
    /\ idx > Len(cities)
    /\ ret' = [kind |-> "collection",
               value |-> [type |-> "FeatureCollection", features |-> features]]
    /\ pc' = "done"
    /\ UNCHANGED <<raw, geom, ret2, cities, idx, features, fetched>>

NextGen == Iterate \/ ReturnCollection

SpecGen == InitGen /\ [][NextGen]_vars

(* ------------------- what the specification prescribes ------------------ *)

\* A well-formed pair of numbers within the longitude and latitude bounds.
InBounds(c) ==
    /\ Len(c) >= 2
    /\ c[1].isnum /\ c[1].v \in -180..180
    /\ c[2].isnum /\ c[2].v \in -90..90

Kept(ring) == SelectSeq(ring, InBounds)

HasValid(ring) == \E m \in 1..Len(ring) : InBounds(ring[m])

WellFormed(g) == g # PyNone /\ {"type", "coordinates"} \subseteq DOMAIN g

\* The input's polygons, a Polygon being a list of one polygon.
InputPolygons(g) == IF g.type = "Polygon" THEN <<g.coordinates>> ELSE g.coordinates

OuterSurvives(polygon) == polygon # <<>> /\ HasValid(polygon[1])

\* The input polygons that have a valid outer boundary, in input order, each
\* reduced to the rings that keep at least one coordinate (outer ring first).
SurvivingRings(polygon) == <<polygon[1]>> \o SelectSeq(Tail(polygon), HasValid)

Survivors(g) ==
    LET kept == SelectSeq(InputPolygons(g), OuterSurvives)
    IN  [i \in 1..Len(kept) |-> SurvivingRings(kept[i])]

CleanedRing(r) ==
    LET k == Kept(r) IN IF k[1] = k[Len(k)] THEN k ELSE Append(k, k[1])

CleanedPolygon(polygon) ==
    LET holes == SelectSeq(Tail(polygon), HasValid)
    IN  <<CleanedRing(polygon[1])>> \o [j \in 1..Len(holes) |-> CleanedRing(holes[j])]

\* The polygons that survive cleaning, cleaned, in input order.
Cleaned(g) ==
    LET kept == SelectSeq(InputPolygons(g), OuterSurvives)
    IN  [i \in 1..Len(kept) |-> CleanedPolygon(kept[i])]

\* The polygons of a returned geometry as a list of ring lists.
OutputPolygons(h) == IF h.type = "Polygon" THEN <<h.coordinates>> ELSE h.coordinates

Returned == pc = "returned" /\ ret.kind = "geometry"

\* The output has one polygon per surviving input polygon and one ring per
\* surviving ring of it.
Aligned(out, sv) ==
    /\ Len(out) = Len(sv)
    /\ \A i \in 1..Len(sv) : Len(out[i]) = Len(sv[i])

OutAligned == Aligned(OutputPolygons(ret.value), Survivors(raw))

\* The pairs <<input ring, output ring>> of the surviving rings.
RingPairs ==
    LET out == OutputPolygons(ret.value)
        sv == Survivors(raw)
    IN  UNION { { <<sv[i][j], out[i][j]>> : j \in 1..Len(sv[i]) } : i \in 1..Len(sv) }

(* -------------------------------- claims -------------------------------- *)

NoPolygonSurvives(g) ==
    /\ WellFormed(g)
    /\ InputPolygons(g) # <<>>
    /\ \A i \in 1..Len(InputPolygons(g)) :
          InputPolygons(g)[i] # <<>> /\ ~HasValid(InputPolygons(g)[i][1])

\* C1: when the input has at least one polygon and every polygon's outer ring
\* is empty or has only invalid coordinates (no polygon survives cleaning),
\* clean_polygon_geometry returns None.
C1_NoSurvivorReturnsNone ==
    (pc = "returned" /\ NoPolygonSurvives(raw)) => ret = NoneResult

\* C2: clean_polygon_geometry never raises: every call returns a geometry or
\* None, and an input without type tag or without coordinates returns None.
C2_NeverRaises ==
    pc = "returned" =>
        /\ ret.kind \in {"geometry", "None"}
        /\ (raw # PyNone /\ ~({"type", "coordinates"} \subseteq DOMAIN raw))
               => ret = NoneResult

\* C3: a returned geometry is tagged "Polygon" exactly when one polygon
\* survived, its coordinates being that polygon's ring list, and
\* "MultiPolygon" exactly when more than one survived, its coordinates being
\* the list of the survivors' ring lists in input order, whatever the input's
\* declared type.
C3_TypeSelection ==
    Returned =>
        LET sv == Cleaned(raw)
            h == ret.value
        IN  /\ h.type \in {"Polygon", "MultiPolygon"}
            /\ (h.type = "Polygon") <=> (Len(sv) = 1)
            /\ (h.type = "MultiPolygon") <=> (Len(sv) > 1)
            /\ h.type = "Polygon" => h.coordinates = sv[1]
            /\ h.type = "MultiPolygon" => h.coordinates = sv

C3_Witness ==
    /\ Returned
    /\ raw.type = "MultiPolygon"
    /\ Len(raw.coordinates) > 1
    /\ ret.value.type = "Polygon"

ClosedAsPrescribed(r, o) ==
    LET k == Kept(r)
    IN  /\ o # <<>>
        /\ o[1] = o[Len(o)]
        /\ IF k[1] = k[Len(k)] THEN o = k ELSE o = Append(k, k[1])

\* C4: every ring of a returned geometry is non-empty and its first coordinate
\* equals its last; a ring whose kept coordinates already start and end with
\* the same coordinate gets nothing appended, any other gets exactly one
\* appended coordinate, equal to its first.
C4_Closure ==
    Returned => (OutAligned /\ \A p \in RingPairs : ClosedAsPrescribed(p[1], p[2]))

C4_Witness ==
    /\ Returned
    /\ (\E p \in RingPairs : Len(p[2]) = Len(Kept(p[1])) + 1)
    /\ (\E p \in RingPairs : Len(p[2]) = Len(Kept(p[1])) /\ Len(p[2]) > 1)

RangeAsPrescribed(r, o) ==
    /\ \A m \in 1..Len(o) :
          /\ Len(o[m]) >= 2
          /\ o[m][1].isnum /\ -180 <= o[m][1].v /\ o[m][1].v <= 180
          /\ o[m][2].isnum /\ -90 <= o[m][2].v /\ o[m][2].v <= 90
    /\ Len(o) >= Len(Kept(r))
    /\ SubSeq(o, 1, Len(Kept(r))) = Kept(r)
    /\ Len(o) <= Len(Kept(r)) + 1

\* C5: every coordinate of a returned geometry has longitude in [-180, 180]
\* and latitude in [-90, 90]; the coordinates of an output ring, up to the
\* closing one, are the in-range coordinates of the input ring with their
\* values and in their order, so that an out-of-range one is removed and
\* never clamped.
C5_Range ==
    Returned => (OutAligned /\ \A p \in RingPairs : RangeAsPrescribed(p[1], p[2]))

C5_Witness ==
    /\ Returned
    /\ (\E p \in RingPairs : Len(p[1]) = 3 /\ ~InBounds(p[1][2]) /\ Len(Kept(p[1])) = 2
                              /\ p[1][1] # p[1][3])

\* C6: cleaning a geometry that clean_polygon_geometry returned gives back an
\* identical geometry.
C6_Idempotent ==
    pc = "again" =>
        /\ ret2.kind = "geometry"
        /\ ret2.value.type = ret.value.type
        /\ ret2.value.coordinates = ret.value.coordinates

C6_Witness ==
    /\ pc = "again"
    /\ ret.value.type = "MultiPolygon"
    /\ raw.coordinates # ret.value.coordinates

\* C7: an input polygon whose outer ring has no valid coordinate is absent
\* from the output even when its holes are valid; any other polygon is output
\* as its cleaned outer ring followed by the cleaned holes that have a valid
\* coordinate, in their original order, a hole without one being dropped.
C7_PolygonAssembly ==
    Returned =>
        LET kept == SelectSeq(InputPolygons(raw), OuterSurvives)
            out == OutputPolygons(ret.value)
        IN  /\ Len(out) = Len(kept)
            /\ \A i \in 1..Len(kept) :
                  /\ Len(out[i]) = Len(CleanedPolygon(kept[i]))
                  /\ out[i] = CleanedPolygon(kept[i])

C7_Witness ==
    /\ Returned
    /\ raw.type = "MultiPolygon"
    /\ Len(raw.coordinates) = 2
    /\ LET p == raw.coordinates[1]
       IN  Len(p) > 1 /\ ~HasValid(p[1]) /\ HasValid(p[2])
    /\ ret.value.coordinates = CleanedPolygon(raw.coordinates[2])

RECURSIVE ExpectedFeatures(_, _)
ExpectedFeatures(cs, bs) ==
    IF cs = <<>>
    THEN <<>>
    ELSE LET rest == ExpectedFeatures(Tail(cs), Tail(bs))
         IN  IF bs[1].kind = "geometry"
             THEN <<[type |-> "Feature", geometry |-> bs[1].value,
                     properties |-> [name |-> cs[1]]]>> \o rest
             ELSE rest

\* C8: generate_geojson returns a FeatureCollection whose features are, in
\* input order and without reordering or deduplication, the cities whose
\* fetch gave a geometry, each with its name; a city whose fetch gave None
\* is skipped and every later city is still processed.
C8_Features ==
    pc = "done" =>
        /\ Len(fetched) = Len(cities)
        /\ ret.value.type = "FeatureCollection"
        /\ Len(ret.value.features) =
               Cardinality({i \in 1..Len(cities) : fetched[i].kind = "geometry"})
        /\ ret.value.features = ExpectedFeatures(cities, fetched)

C8_Witness ==
    /\ pc = "done"
    /\ Len(cities) = 3
    /\ cities[1] = cities[3]
    /\ fetched[1].kind = "geometry"
    /\ fetched[2] = NoneResult
    /\ fetched[3] = fetched[1]
    /\ Len(ret.value.features) = 2

\* C9: clean_polygon_geometry leaves its argument as it was, whether it
\* returns a geometry, returns None or raises.
C9_ArgumentUnchanged == pc # "start" => geom = raw

C9_Witness ==
    /\ Returned
    /\ raw.type = "Polygon"
    /\ (\E p \in RingPairs : Len(p[2]) = Len(p[1]) + 1)
    /\ (\E p \in RingPairs : Len(p[2]) < Len(p[1]))
    /\ geom = raw

OnePointDuplicated(r, o) ==
    Len(Kept(r)) = 1 => (Len(o) = 2 /\ o[1] = o[2])

\* C10 as stated: a ring with exactly one valid coordinate after filtering
\* is emitted with two equal coordinates.
C10_OnePointRingDuplicated ==
    Returned => (OutAligned /\ \A p \in RingPairs : OnePointDuplicated(p[1], p[2]))

OnePointKept(r, o) ==
    Len(Kept(r)) = 1 => o = Kept(r)

\* C10 as amended: a ring with exactly one valid coordinate after filtering
\* gets nothing appended (its first and last coordinate are the same element)
\* and is emitted with that one coordinate only.
C10_OnePointRingKept ==
    Returned => (OutAligned /\ \A p \in RingPairs : OnePointKept(p[1], p[2]))

C10_Witness ==
    /\ Returned
    /\ (\E p \in RingPairs : Len(p[1]) > 1 /\ Len(Kept(p[1])) = 1 /\ Len(p[2]) = 1)

====
